---- MODULE Spec2Model ----
(***************************************************************************)
(* A model of StaticAnalyzer/views/ios/binary_analysis.py: the static      *)
(* analysis of one iOS executable.  binary_analysis is modelled as a       *)
(* sequential run whose steps are its phases (path resolution, header      *)
(* inspection, otool analysis, binary type detection, class dump, strings, *)
(* report assembly).  The host platform, the settings, the file system and *)
(* the outputs of the external utilities are the environment.              *)
(*                                                                         *)
(* Python values are represented as follows.  bytes and str are TLA+       *)
(* strings over ASCII (on which decode('utf-8', 'ignore') changes          *)
(* nothing); a list is a sequence; a dict with fixed keys is a record and  *)
(* the empty dict {} is << >>.  The outcome of a call that may raise or    *)
(* return None is one of Raised, RetNone, Ret(v).  A cvss score is held in *)
(* tenths, so that 7.5 is 75 and 2 is 20.                                  *)
(***************************************************************************)
EXTENDS Integers, Sequences, FiniteSets, TLC

VARIABLES
  plat,            \* platform.system()
  settings,        \* django settings: the configured utility paths
  files,           \* the file system: the paths that are a regular file
  input,           \* the arguments of binary_analysis and the listing of src
  pc,              \* the phase binary_analysis is about to run
  bin_path,        \* local of binary_analysis (line 463)
  binary,          \* the Mach-O file at bin_path, when there is one
  bin_info,        \* outcome of get_bin_info (line 471)
  otool_dict,      \* outcome of otool_analysis (line 472)
  libs_dat,        \* outcome of get_otool_out for libs (line 84)
  pie_dat,         \* outcome of get_otool_out for header (line 87)
  dat,             \* outcome of get_otool_out for symbols (line 113)
  bin_type,        \* local of binary_analysis (line 473)
  class_dump_ret,  \* outcome of class_dump (line 474)
  cls_dump,        \* local of binary_analysis (lines 474-476)
  strings_in_ipa,  \* outcome of strings_on_ipa (line 477)
  invoked,         \* the external utility invocations so far, in order
  chmods,          \* the paths os.chmod was applied to, in order
  artifacts,       \* the files written: path :> content
  dump_runs,       \* the invocations class_dump made, with their outcomes
  result           \* the outcome of binary_analysis, once it has ended

vars == << plat, settings, files, input, binary, pc, bin_path, bin_info,
           otool_dict, libs_dat, pie_dat, dat, bin_type, class_dump_ret,
           cls_dump, strings_in_ipa, invoked, chmods, artifacts, dump_runs,
           result >>

-----------------------------------------------------------------------------
(* Bounds of the model. *)

\* The most symbol names the symbols evidence holds.
MaxSyms == 1

\* The most characters a write of classdump.txt keeps before it raises.
MaxKept == 1

-----------------------------------------------------------------------------
(* Python values and outcomes. *)

Raised == [kind |-> "raise"]
RetNone == [kind |-> "None"]
Ret(v) == [kind |-> "value", value |-> v]
\* A write that raises after open succeeded: the file is there, truncated,
\* and holds the first kept characters of the text.
Short(n) == [kind |-> "short", kept |-> n]

\* The empty dict.
EmptyDict == << >>

SECURE == "Secure"
IN_SECURE == "Insecure"
INFO == "Info"
WARNING == "Warning"

Range(seq) == {seq[i] : i \in 1..Len(seq)}

-----------------------------------------------------------------------------
(* bytes and str operations. *)

\* s[pos:].startswith(t), pos counted from 1.
MatchAt(t, s, pos) ==
  /\ pos + Len(t) - 1 <= Len(s)
  /\ SubSeq(s, pos, pos + Len(t) - 1) = t

\* t in s
Contains(t, s) == \E i \in 1..(Len(s) - Len(t) + 1) : MatchAt(t, s, i)

\* The j-th alternative matches s at pos.  An empty match is refused when
\* the scan must advance.
AltMatches(alts, j, s, pos, must_advance) ==
  /\ MatchAt(alts[j], s, pos)
  /\ ~(must_advance /\ Len(alts[j]) = 0)

\* The first alternative, from the k-th on, that matches s at pos; 0 if none
\* does.
FirstAlt(alts, k, s, pos, must_advance) ==
  IF \E j \in k..Len(alts) : AltMatches(alts, j, s, pos, must_advance)
  THEN CHOOSE j \in k..Len(alts) :
         /\ AltMatches(alts, j, s, pos, must_advance)
         /\ \A i \in k..(j - 1) : ~AltMatches(alts, i, s, pos, must_advance)
  ELSE 0

\* The leftmost match at or after pos: << position, alternative >>, or
\* << 0, 0 >>.  must_advance applies at pos only.
Search(alts, s, pos, must_advance) ==
  LET here(p) == \E j \in 1..Len(alts) :
                   AltMatches(alts, j, s, p, must_advance /\ p = pos)
  IN  IF \E p \in pos..(Len(s) + 1) : here(p)
      THEN LET p == CHOOSE q \in pos..(Len(s) + 1) :
                      here(q) /\ \A r \in pos..(q - 1) : ~here(r)
           IN  << p, FirstAlt(alts, 1, s, p, must_advance /\ p = pos) >>
      ELSE << 0, 0 >>

RECURSIVE FindAllFrom(_, _, _, _)
FindAllFrom(alts, s, pos, must_advance) ==
  LET m == Search(alts, s, pos, must_advance)
  IN  IF m[1] = 0 THEN << >>
      ELSE LET a == alts[m[2]]
           IN  << a >> \o FindAllFrom(alts, s, m[1] + Len(a), Len(a) = 0)

\* sep.join(seq)
RECURSIVE join(_, _)
join(sep, seq) ==
  IF Len(seq) = 0 THEN ""
  ELSE IF Len(seq) = 1 THEN seq[1]
  ELSE seq[1] \o sep \o join(sep, Tail(seq))

\* list(set(seq)): the distinct elements of seq in the order a set iterates
\* them, which Python leaves open; ord is the order of this run.
list_set(seq, ord) == SelectSeq(ord, LAMBDA x : x \in Range(seq))

\* The orders in which the elements of S may come.
Orders(S) ==
  {f \in [1..Cardinality(S) -> S] :
     \A i, j \in 1..Cardinality(S) : i # j => f[i] # f[j]}

\* s.replace(old, new), old not empty.
RECURSIVE str_replace(_, _, _)
str_replace(s, old, new) ==
  IF Len(s) = 0 THEN ""
  ELSE IF MatchAt(old, s, 1)
       THEN new \o str_replace(SubSeq(s, Len(old) + 1, Len(s)), old, new)
       ELSE SubSeq(s, 1, 1) \o str_replace(SubSeq(s, 2, Len(s)), old, new)

\* django.utils.html.escape on one character.
escape_char(c) ==
  CASE c = "&" -> "&amp;"
    [] c = "<" -> "&lt;"
    [] c = ">" -> "&gt;"
    [] c = "\"" -> "&quot;"
    [] c = "'" -> "&#x27;"
    [] OTHER -> c

\* django.utils.html.escape
RECURSIVE escape(_)
escape(s) ==
  IF Len(s) = 0 THEN ""
  ELSE escape_char(SubSeq(s, 1, 1)) \o escape(SubSeq(s, 2, Len(s)))

\* s.split(sep), sep not empty.
RECURSIVE SplitFrom(_, _, _, _)
SplitFrom(s, sep, start, pos) ==
  IF pos > Len(s) THEN << SubSeq(s, start, Len(s)) >>
  ELSE IF MatchAt(sep, s, pos)
       THEN << SubSeq(s, start, pos - 1) >>
            \o SplitFrom(s, sep, pos + Len(sep), pos + Len(sep))
       ELSE SplitFrom(s, sep, start, pos + 1)

str_split(s, sep) == SplitFrom(s, sep, 1, 1)

\* str.endswith
endswith(s, suffix) ==
  /\ Len(suffix) <= Len(s)
  /\ SubSeq(s, Len(s) - Len(suffix) + 1, Len(s)) = suffix

\* os.path.join(a, b) for a relative b on a POSIX host.
path_join(a, b) ==
  IF Len(a) = 0 \/ endswith(a, "/") THEN a \o b ELSE a \o "/" \o b

-----------------------------------------------------------------------------
(* The signature catalog of otool_analysis. *)

\* The alternatives of the pattern searched at lines 160-165, in order.
BANNED_PATTERN ==
  <<
    "_alloca", "_gets", "_memcpy", "_printf", "_scanf", "_sprintf",
    "_sscanf", "_strcat", "StrCat", "_strcpy", "StrCpy", "_strlen", "StrLen",
    "_strncat", "StrNCat", "_strncpy", "StrNCpy", "_strtok", "_swprintf",
    "_vsnprintf", "_vsprintf", "_vswprintf", "_wcscat", "_wcscpy", "_wcslen",
    "_wcsncat", "_wcsncpy", "_wcstok", "_wmemcpy", "_fopen", "_chmod",
    "_chown", "_stat", "_mktemp"
  >>

\* The alternatives of the pattern searched at lines 179-181, in order.
WEAK_ALGO_PATTERN ==
  <<
    "kCCAlgorithmDES", "kCCAlgorithm3DES", "", "kCCAlgorithmRC2",
    "kCCAlgorithmRC4", "kCCOptionECBMode", "kCCOptionCBCMode"
  >>

\* The alternatives of the pattern searched at lines 195-219, in order.
CRYPTO_PATTERN ==
  <<
    "CCKeyDerivationPBKDF", "CCCryptorCreate", "CCCryptorCreateFromData",
    "CCCryptorRelease", "CCCryptorUpdate", "CCCryptorFinal",
    "CCCryptorGetOutputLength", "CCCryptorReset", "CCCryptorRef",
    "kCCEncrypt", "kCCDecrypt", "kCCAlgorithmAES128", "kCCKeySizeAES128",
    "kCCKeySizeAES192", "kCCKeySizeAES256", "kCCAlgorithmCAST",
    "SecCertificateGetTypeID", "SecIdentityGetTypeID", "SecKeyGetTypeID",
    "SecPolicyGetTypeID", "SecTrustGetTypeID",
    "SecCertificateCreateWithData", "SecCertificateCreateFromData",
    "SecCertificateCopyData", "SecCertificateAddToKeychain",
    "SecCertificateGetData", "SecCertificateCopySubjectSummary",
    "SecIdentityCopyCertificate", "SecIdentityCopyPrivateKey",
    "SecPKCS12Import", "SecKeyGeneratePair", "SecKeyEncrypt",
    "SecKeyDecrypt", "SecKeyRawSign", "SecKeyRawVerify",
    "SecKeyGetBlockSize", "SecPolicyCopyProperties",
    "SecPolicyCreateBasicX509", "SecPolicyCreateSSL",
    "SecTrustCopyCustomAnchorCertificates", "SecTrustCopyExceptions",
    "SecTrustCopyProperties", "SecTrustCopyPolicies",
    "SecTrustCopyPublicKey", "SecTrustCreateWithCertificates",
    "SecTrustEvaluate", "SecTrustEvaluateAsync",
    "SecTrustGetCertificateCount", "SecTrustGetCertificateAtIndex",
    "SecTrustGetTrustResult", "SecTrustGetVerifyTime",
    "SecTrustSetAnchorCertificates", "SecTrustSetAnchorCertificatesOnly",
    "SecTrustSetExceptions", "SecTrustSetPolicies", "SecTrustSetVerifyDate",
    "SecCertificateRef", "SecIdentityRef", "SecKeyRef", "SecPolicyRef",
    "SecTrustRef"
  >>

\* The alternatives of the pattern searched at lines 233-239, in order.
WEAK_HASH_PATTERN ==
  <<
    "CC_MD2_Init", "CC_MD2_Update", "CC_MD2_Final", "CC_MD2", "MD2_Init",
    "MD2_Update", "MD2_Final", "CC_MD4_Init", "CC_MD4_Update",
    "CC_MD4_Final", "CC_MD4", "MD4_Init", "MD4_Update", "MD4_Final",
    "CC_MD5_Init", "CC_MD5_Update", "CC_MD5_Final", "CC_MD5", "MD5_Init",
    "MD5_Update", "MD5_Final", "MD5Init", "MD5Update", "MD5Final",
    "CC_SHA1_Init", "CC_SHA1_Update", "CC_SHA1_Final", "CC_SHA1",
    "SHA1_Init", "SHA1_Update", "SHA1_Final"
  >>

\* The alternatives of the pattern searched at lines 254-261, in order.
HASH_PATTERN ==
  <<
    "CC_SHA224_Init", "CC_SHA224_Update", "CC_SHA224_Final", "CC_SHA224",
    "SHA224_Init", "SHA224_Update", "SHA224_Final", "CC_SHA256_Init",
    "CC_SHA256_Update", "CC_SHA256_Final", "CC_SHA256", "SHA256_Init",
    "SHA256_Update", "SHA256_Final", "CC_SHA384_Init", "CC_SHA384_Update",
    "CC_SHA384_Final", "CC_SHA384", "SHA384_Init", "SHA384_Update",
    "SHA384_Final", "CC_SHA512_Init", "CC_SHA512_Update", "CC_SHA512_Final",
    "CC_SHA512", "SHA512_Init", "SHA512_Update", "SHA512_Final"
  >>

\* The alternatives of the pattern searched at lines 275-275, in order.
RAND_PATTERN ==
  <<
    "_srand", "_random"
  >>

\* The alternatives of the pattern searched at lines 289-289, in order.
LOG_PATTERN ==
  <<
    "_NSLog"
  >>

\* The alternatives of the pattern searched at lines 302-302, in order.
MALLOC_PATTERN ==
  <<
    "_malloc"
  >>

\* The alternatives of the pattern searched at lines 315-315, in order.
PTRACE_PATTERN ==
  <<
    "_ptrace"
  >>

-----------------------------------------------------------------------------
(* The symbol tables of the model, and re.findall. *)

\* The symbol names the symbol tables are made of.
SYMBOLS ==
  << "___stack_chk_guard", "_objc_release", "_strcpy", "_kCCAlgorithmDES",
     "_kCCAlgorithmRC4", "_CCCryptorCreate", "_CC_MD5", "_CC_SHA256_Init",
     "_srandom", "_NSLog", "_malloc", "_ptrace", "_open" >>

\* One symbol name a line.
RECURSIVE lines_of(_)
lines_of(seq) ==
  IF Len(seq) = 0 THEN "" ELSE seq[1] \o "\n" \o lines_of(Tail(seq))

\* The symbol lists of at most MaxSyms symbols, in the order of SYMBOLS.
SymbolLists ==
  { SelectSeq(SYMBOLS, LAMBDA x : x \in S) :
      S \in {T \in SUBSET Range(SYMBOLS) : Cardinality(T) <= MaxSyms} }

\* The symbol tables of at most MaxSyms symbols.
SymbolTexts == { lines_of(q) : q \in SymbolLists }

\* The same tables as jtool gives them: the first half of the symbols in
\* the bind table, the others in the lazy bind table.
SymbolSplits ==
  { << lines_of(SubSeq(q, 1, (Len(q) + 1) \div 2)),
       lines_of(SubSeq(q, (Len(q) + 1) \div 2 + 1, Len(q))) >> :
      q \in SymbolLists }

\* The patterns of the catalog.
PATTERNS ==
  << BANNED_PATTERN, WEAK_ALGO_PATTERN, CRYPTO_PATTERN, WEAK_HASH_PATTERN,
     HASH_PATTERN, RAND_PATTERN, LOG_PATTERN, MALLOC_PATTERN,
     PTRACE_PATTERN >>

\* The matches of the patterns of the catalog in the symbol tables of the
\* model, computed once.
findall_table ==
  [t \in SymbolTexts |->
     [i \in 1..Len(PATTERNS) |-> FindAllFrom(PATTERNS[i], t, 1, FALSE)]]

\* re.findall(p, s) for a pattern p that is an ordered alternation of
\* literals: the non-overlapping matches, left to right.  After an empty
\* match the scan resumes at the same place and must advance.
re_findall(alts, s) ==
  IF s \in SymbolTexts /\ \E i \in 1..Len(PATTERNS) : PATTERNS[i] = alts
  THEN findall_table[s][CHOOSE i \in 1..Len(PATTERNS) : PATTERNS[i] = alts]
  ELSE FindAllFrom(alts, s, 1, FALSE)

-----------------------------------------------------------------------------
(* The findings of otool_analysis. *)

Finding(issue, status, description, cvss, cwe) ==
  [issue |-> issue, status |-> status, description |-> description,
   cvss |-> cvss, cwe |-> cwe]

\* The joined distinct matches of a pattern: baned_s, weak_algo_s, ...
matched_s(pattern, text, ord) ==
  join(", ", list_set(re_findall(pattern, text), ord))

\* A variant of has_matched that counts an empty join as a match.
has_matched_any(joined) == Len(joined) >= 0

\* The test that decides whether a category has matched.
has_matched(joined) == Len(joined) > 1

pie_flag(header) ==
  IF Contains("PIE", header)
  THEN Finding("fPIE -pie flag is Found", SECURE,
               "App is compiled with Position Independent "
               \o "Executable (PIE) flag. This enables Address"
               \o " Space Layout Randomization (ASLR), a memory"
               \o " protection mechanism for"
               \o " exploit mitigation.",
               0, "")
  ELSE Finding("fPIE -pie flag is not Found", IN_SECURE,
               "with Position Independent Executable (PIE) "
               \o "flag. So Address Space Layout Randomization "
               \o "(ASLR) is missing. ASLR is a memory "
               \o "protection mechanism for "
               \o "exploit mitigation.",
               20, "CWE-119")

ssmash(text) ==
  IF Contains("stack_chk_guard", text)
  THEN Finding("fstack-protector-all flag is Found", SECURE,
               "App is compiled with Stack Smashing Protector"
               \o " (SSP) flag and is having protection against"
               \o " Stack Overflows/Stack Smashing Attacks.",
               0, "")
  ELSE Finding("fstack-protector-all flag is not Found", IN_SECURE,
               "App is not compiled with Stack Smashing "
               \o "Protector (SSP) flag. It is vulnerable to"
               \o "Stack Overflows/Stack Smashing Attacks.",
               20, "CWE-119")

arc_flag(text) ==
  IF Contains("_objc_release", text)
  THEN Finding("fobjc-arc flag is Found", SECURE,
               "App is compiled with Automatic Reference "
               \o "Counting (ARC) flag. ARC is a compiler "
               \o "feature that provides automatic memory "
               \o "management of Objective-C objects and is an "
               \o "exploit mitigation mechanism against memory "
               \o "corruption vulnerabilities.",
               0, "")
  ELSE Finding("fobjc-arc flag is not Found", IN_SECURE,
               "App is not compiled with Automatic Reference "
               \o "Counting (ARC) flag. ARC is a compiler "
               \o "feature that provides automatic memory "
               \o "management of Objective-C objects and "
               \o "protects from memory corruption "
               \o "vulnerabilities.",
               20, "CWE-119")

banned_apis(text, ord) ==
  LET baned_s == matched_s(BANNED_PATTERN, text, ord)
  IN  IF has_matched(baned_s)
      THEN Finding("Binary make use of banned API(s)", IN_SECURE,
                   "The binary may contain"
                   \o " the following banned API(s) " \o baned_s \o ".",
                   60, "CWE-676")
      ELSE EmptyDict

\* The weak crypto category.  Its description is built with .formnat, which
\* str does not have: when the category has matched, line 189 raises
\* AttributeError.
weak_cryptos(text, ord) ==
  LET weak_algo_s == matched_s(WEAK_ALGO_PATTERN, text, ord)
  IN  IF has_matched(weak_algo_s) THEN Raised ELSE Ret(EmptyDict)

crypto(text, ord) ==
  LET crypto_algo_s == matched_s(CRYPTO_PATTERN, text, ord)
  IN  IF has_matched(crypto_algo_s)
      THEN Finding("Binary make use of the following Crypto API(s)", "Info",
                   "The binary may use "
                   \o "the following crypto API(s) " \o crypto_algo_s \o ".",
                   0, "")
      ELSE EmptyDict

weak_hashes(text, ord) ==
  LET weak_hash_algo_s == matched_s(WEAK_HASH_PATTERN, text, ord)
  IN  IF has_matched(weak_hash_algo_s)
      THEN Finding("Binary make use of the following Weak HASH API(s)",
                   IN_SECURE,
                   "The binary may use the "
                   \o "following weak hash API(s) " \o weak_hash_algo_s
                   \o ".",
                   30, "CWE-327")
      ELSE EmptyDict

hashes(text, ord) ==
  LET hash_algo_s == matched_s(HASH_PATTERN, text, ord)
  IN  IF has_matched(hash_algo_s)
      THEN Finding("Binary make use of the following HASH API(s)", INFO,
                   "The binary may use the"
                   \o " following hash API(s) " \o hash_algo_s \o ".",
                   0, "")
      ELSE EmptyDict

randoms(text, ord) ==
  LET rand_algo_s == matched_s(RAND_PATTERN, text, ord)
  IN  IF has_matched(rand_algo_s)
      THEN Finding("Binary make use of the insecure Random Function(s)",
                   IN_SECURE,
                   "The binary may use the following "
                   \o "insecure Random Function(s) " \o rand_algo_s \o ".",
                   30, "CWE-338")
      ELSE EmptyDict

logging(text, ord) ==
  LET log_s == matched_s(LOG_PATTERN, text, ord)
  IN  IF has_matched(log_s)
      THEN Finding("Binary make use of Logging Function", INFO,
                   "The binary may use NSLog"
                   \o " function for logging.",
                   75, "CWE-532")
      ELSE EmptyDict

malloc(text, ord) ==
  LET mal_s == matched_s(MALLOC_PATTERN, text, ord)
  IN  IF has_matched(mal_s)
      THEN Finding("Binary make use of malloc Function", IN_SECURE,
                   "The binary may use malloc"
                   \o " function instead of calloc.",
                   20, "CWE-789")
      ELSE EmptyDict

debug(text, ord) ==
  LET ptrace_s == matched_s(PTRACE_PATTERN, text, ord)
  IN  IF has_matched(ptrace_s)
      THEN Finding("Binary calls ptrace Function for anti-debugging.",
                   WARNING,
                   "The binary may use ptrace function. It can be"
                   \o " used to detect and prevent debuggers."
                   \o "Ptrace is not a public API and Apps that use"
                   \o " non-public APIs will be rejected"
                   \o " from AppStore.",
                   0, "")
      ELSE EmptyDict

\* The set iteration orders a run may fix for the matches in text: an
\* order of the distinct matches of the i-th pattern of the catalog, then
\* of the next, up to the last.  (No token belongs to two patterns.)
RECURSIVE set_orders(_, _)
set_orders(text, i) ==
  IF i > Len(PATTERNS) THEN { << >> }
  ELSE { a \o b : a \in Orders(Range(re_findall(PATTERNS[i], text))),
                  b \in set_orders(text, i + 1) }

-----------------------------------------------------------------------------
(* The environment. *)

\* MobSF.utils.is_file_exists
is_file_exists(path) == path \in files

\* The outcome of subprocess.check_output.
Output(text) == Ret(text)

\* A utility that is not installed cannot run: its invocation raises.
Installed(bin) == bin = "otool" \/ bin \in files

-----------------------------------------------------------------------------
(* get_otool_out: the evidence of one kind.  outs are the outcomes of the   *)
(* invocations the call makes, in order; calls are the invocations made.   *)

get_otool_out(tdir, cmd_type, bpath, bdir, outs) ==
  LET otool_bin ==
        IF Len(settings.OTOOL_BINARY) > 0
           /\ is_file_exists(settings.OTOOL_BINARY)
        THEN settings.OTOOL_BINARY
        ELSE "otool"
      jtool_bin ==
        IF Len(settings.JTOOL_BINARY) > 0
           /\ is_file_exists(settings.JTOOL_BINARY)
        THEN settings.JTOOL_BINARY
        ELSE path_join(tdir, "jtool.ELF64")
      NotSupported == [res |-> RetNone, calls |-> << >>]
      One(a, convert(_)) ==
        IF outs[1].kind = "raise"
        THEN [res |-> Raised, calls |-> << a >>]
        ELSE [res |-> Ret(convert(outs[1].value)), calls |-> << a >>]
      Same(b) == b
      Libs(b) == str_split(escape(str_replace(b, bdir \o "/", "")), "\n")
  IN  CASE cmd_type = "libs" ->
             IF plat = "Darwin"
             THEN One(<< otool_bin, "-L", bpath >>, Libs)
             ELSE IF plat = "Linux"
             THEN One(<< jtool_bin, "-arch", "arm", "-L", "-v", bpath >>,
                      Libs)
             ELSE NotSupported
        [] cmd_type = "header" ->
             IF plat = "Darwin"
             THEN One(<< otool_bin, "-hv", bpath >>, Same)
             ELSE IF plat = "Linux"
             THEN One(<< jtool_bin, "-arch", "arm", "-h", "-v", bpath >>,
                      Same)
             ELSE NotSupported
        [] cmd_type = "symbols" ->
             IF plat = "Darwin"
             THEN One(<< otool_bin, "-Iv", bpath >>, Same)
             ELSE IF plat = "Linux"
             THEN LET arg1 == << jtool_bin, "-arch", "arm", "-bind", "-v",
                                 bpath >>
                      arg2 == << jtool_bin, "-arch", "arm", "-lazy_bind",
                                 "-v", bpath >>
                  IN  IF outs[1].kind = "raise"
                      THEN [res |-> Raised, calls |-> << arg1 >>]
                      ELSE IF outs[2].kind = "raise"
                      THEN [res |-> Raised, calls |-> << arg1, arg2 >>]
                      ELSE [res |-> Ret(outs[1].value \o outs[2].value),
                            calls |-> << arg1, arg2 >>]
             ELSE NotSupported

-----------------------------------------------------------------------------
(* otool_analysis.  outs holds the outcomes of the invocations of each      *)
(* evidence kind; ord is the set iteration order of the run.  Any exception *)
(* is caught at line 342 and the function returns None.                     *)

NotRun == [kind |-> "notrun"]

\* The value of a variable that holds the outcome o of get_otool_out.
value_of(o) == IF o.kind = "value" THEN o.value ELSE RetNone

otool_analysis(tdir, bname, bpath, bdir, outs, ord) ==
  LET libs == get_otool_out(tdir, "libs", bpath, bdir, outs.libs)
      hdr == get_otool_out(tdir, "header", bpath, bdir, outs.header)
      sym == get_otool_out(tdir, "symbols", bpath, bdir, outs.symbols)
      text == sym.res.value
      wc == weak_cryptos(text, ord)
  IN  IF libs.res.kind = "raise"
      THEN [res |-> RetNone, calls |-> libs.calls,
            libs |-> libs.res, pie_dat |-> NotRun, dat |-> NotRun]
      ELSE IF hdr.res.kind # "value"
      \* the invocation raised, or line 88 applies "in" to None
      THEN [res |-> RetNone, calls |-> libs.calls \o hdr.calls,
            libs |-> libs.res, pie_dat |-> hdr.res, dat |-> NotRun]
      ELSE IF sym.res.kind # "value"
      \* the invocation raised, or line 114 applies "in" to None
      THEN [res |-> RetNone,
            calls |-> libs.calls \o hdr.calls \o sym.calls,
            libs |-> libs.res, pie_dat |-> hdr.res, dat |-> sym.res]
      ELSE IF wc.kind = "raise"
      THEN [res |-> RetNone,
            calls |-> libs.calls \o hdr.calls \o sym.calls,
            libs |-> libs.res, pie_dat |-> hdr.res, dat |-> sym.res]
      ELSE [res |-> Ret([libs |-> value_of(libs.res),
                         anal |-> << pie_flag(hdr.res.value),
                                     ssmash(text),
                                     arc_flag(text),
                                     banned_apis(text, ord),
                                     wc.value,
                                     crypto(text, ord),
                                     weak_hashes(text, ord),
                                     hashes(text, ord),
                                     randoms(text, ord),
                                     logging(text, ord),
                                     malloc(text, ord),
                                     debug(text, ord) >>]),
            calls |-> libs.calls \o hdr.calls \o sym.calls,
            libs |-> libs.res, pie_dat |-> hdr.res, dat |-> sym.res]

-----------------------------------------------------------------------------
(* detect_bin_type *)

\* A variant of detect_bin_type that looks at the first entry only.
detect_bin_type_first(libs) ==
  IF Len(libs) > 0 /\ Contains("libswiftCore.dylib", libs[1])
  THEN "Swift"
  ELSE "Objective C"

detect_bin_type(libs) ==
  IF \E i \in 1..Len(libs) : Contains("libswiftCore.dylib", libs[i])
  THEN "Swift"
  ELSE "Objective C"

-----------------------------------------------------------------------------
(* class_dump.  chmod_out is the outcome of os.chmod on the utility,        *)
(* devnull_out that of opening os.devnull, outs are the outcomes of the     *)
(* dump invocations, in order, and write_out is the outcome of writing      *)
(* classdump.txt.  Any exception is caught at line 409 and the function     *)
(* returns None.                                                            *)

\* Lines 357 and 401-407: the finding for a dump.
webview(classdump) ==
  IF Contains("UIWebView", classdump)
  THEN Finding("Binary uses WebView Component.", INFO,
               "The binary may use WebView Component.", 0, "")
  ELSE EmptyDict

\* A variant of class_dump without the fail safe of lines 392-397: the
\* first dump is written and searched whatever it holds.
class_dump_no_retry(tdir, bpath, app_dir, btype, chmod_out, devnull_out, outs, write_out) ==
  LET pick(conf, name) ==
        IF Len(conf) > 0 /\ is_file_exists(conf) THEN conf
        ELSE path_join(tdir, name)
      dump_bin ==
        IF plat = "Darwin"
        THEN IF btype = "Swift"
             THEN pick(settings.CLASSDUMP_SWIFT_BINARY, "class-dump-swift")
             ELSE pick(settings.CLASSDUMPZ_BINARY, "class-dump-z")
        ELSE pick(settings.JTOOL_BINARY, "jtool.ELF64")
      args1 ==
        IF plat = "Darwin"
        THEN << dump_bin, bpath >>
        ELSE << dump_bin, "-arch", "arm", "-d", "objc", "-v", bpath >>
  IN  IF plat \notin {"Darwin", "Linux"}
      THEN [res |-> Ret(EmptyDict), chmods |-> << >>, calls |-> << >>,
            writes |-> << >>]
      ELSE IF chmod_out.kind = "raise"
      THEN [res |-> RetNone, chmods |-> << >>, calls |-> << >>,
            writes |-> << >>]
      ELSE IF devnull_out.kind = "raise"
      THEN [res |-> RetNone, chmods |-> << dump_bin >>, calls |-> << >>,
            writes |-> << >>]
      ELSE IF outs[1].kind = "raise" \/ write_out.kind = "raise"
      THEN [res |-> RetNone, chmods |-> << dump_bin >>,
            calls |-> << args1 >>, writes |-> << >>]
      ELSE IF write_out.kind = "short"
      THEN [res |-> RetNone, chmods |-> << dump_bin >>,
            calls |-> << args1 >>,
            writes |-> << << path_join(app_dir, "classdump.txt"),
                             SubSeq(outs[1].value, 1, write_out.kept) >> >>]
      ELSE [res |-> Ret(webview(outs[1].value)),
            chmods |-> << dump_bin >>,
            calls |-> << args1 >>,
            writes |-> << << path_join(app_dir, "classdump.txt"),
                             outs[1].value >> >>]

class_dump(tdir, bpath, app_dir, btype, chmod_out, devnull_out, outs, write_out) ==
  LET swift_bin ==
        IF Len(settings.CLASSDUMP_SWIFT_BINARY) > 0
           /\ is_file_exists(settings.CLASSDUMP_SWIFT_BINARY)
        THEN settings.CLASSDUMP_SWIFT_BINARY
        ELSE path_join(tdir, "class-dump-swift")
      z_bin ==
        IF Len(settings.CLASSDUMPZ_BINARY) > 0
           /\ is_file_exists(settings.CLASSDUMPZ_BINARY)
        THEN settings.CLASSDUMPZ_BINARY
        ELSE path_join(tdir, "class-dump-z")
      jtool_bin ==
        IF Len(settings.JTOOL_BINARY) > 0
           /\ is_file_exists(settings.JTOOL_BINARY)
        THEN settings.JTOOL_BINARY
        ELSE path_join(tdir, "jtool.ELF64")
      dump_bin ==
        IF plat = "Darwin"
        THEN IF btype = "Swift" THEN swift_bin ELSE z_bin
        ELSE jtool_bin
      args1 ==
        IF plat = "Darwin"
        THEN << dump_bin, bpath >>
        ELSE << jtool_bin, "-arch", "arm", "-d", "objc", "-v", bpath >>
      args2 == << path_join(tdir, "class-dump-swift"), bpath >>
      retry ==
        /\ Contains("Source: (null)", outs[1].value)
        /\ plat = "Darwin"
      classdump == IF retry THEN outs[2].value ELSE outs[1].value
      dump_file == path_join(app_dir, "classdump.txt")
      None(cm, calls) ==
        [res |-> RetNone, chmods |-> cm, calls |-> calls, writes |-> << >>]
  IN  IF plat \notin {"Darwin", "Linux"}
      THEN [res |-> Ret(EmptyDict), chmods |-> << >>, calls |-> << >>,
            writes |-> << >>]
      ELSE IF chmod_out.kind = "raise"
      \* os.chmod raises: FileNotFoundError, or PermissionError
      THEN None(<< >>, << >>)
      ELSE IF devnull_out.kind = "raise"
      \* open(os.devnull, 'w') raises at line 390: no invocation is made
      THEN None(<< dump_bin >>, << >>)
      ELSE IF outs[1].kind = "raise"
      THEN None(<< dump_bin >>, << args1 >>)
      ELSE IF retry /\ outs[2].kind = "raise"
      THEN None(<< dump_bin >>, << args1, args2 >>)
      ELSE IF write_out.kind = "raise"
      \* open(dump_file, 'w') raises at line 399: nothing is written
      THEN None(<< dump_bin >>,
                IF retry THEN << args1, args2 >> ELSE << args1 >>)
      ELSE IF write_out.kind = "short"
      \* open truncated dump_file, then flip.write or the close of the with
      \* raises (line 400): the file keeps the characters that went out
      THEN [res |-> RetNone,
            chmods |-> << dump_bin >>,
            calls |-> IF retry THEN << args1, args2 >> ELSE << args1 >>,
            writes |-> << << dump_file,
                             SubSeq(classdump, 1, write_out.kept) >> >>]
      ELSE [res |-> Ret(webview(classdump)),
            chmods |-> << dump_bin >>,
            calls |-> IF retry THEN << args1, args2 >> ELSE << args1 >>,
            writes |-> << << dump_file, classdump >> >>]

-----------------------------------------------------------------------------
(* strings_on_ipa.  found is the outcome of strings_util(bin_path).  Any    *)
(* exception is caught at line 422 and the function returns None.           *)

\* [escape(x) for x in seq]
RECURSIVE escape_each(_)
escape_each(seq) ==
  IF Len(seq) = 0 THEN << >>
  ELSE << escape(seq[1]) >> \o escape_each(Tail(seq))

strings_on_ipa(found, ord) ==
  IF found.kind = "raise" THEN RetNone
  ELSE Ret(escape_each(list_set(found.value, ord)))

-----------------------------------------------------------------------------
(* get_bin_info.  A Mach-O file is given by the magic its first four bytes  *)
(* read as and by the headers macholib finds in it.                         *)

MH_MAGIC == "0xfeedface"
MH_CIGAM == "0xcefaedfe"
MH_MAGIC_64 == "0xfeedfacf"
MH_CIGAM_64 == "0xcffaedfe"
FAT_MAGIC == "0xcafebabe"
FAT_MAGIC_64 == "0xcafebabf"

\* macholib.MachO.MachO(bin_file): the headers, or ValueError for a magic
\* that is not a Mach-O or fat magic.  Opening a file that is not there
\* raises as well.
MachO(file) ==
  IF file = NotRun THEN Raised
  ELSE IF file.magic \in {MH_MAGIC, MH_CIGAM, MH_MAGIC_64, MH_CIGAM_64,
                     FAT_MAGIC, FAT_MAGIC_64}
  THEN Ret(file.headers)
  ELSE Raised

\* macholib.mach_o.CPU_TYPE_NAMES, the entries of the modelled files.
CPU_TYPE_NAMES == [t \in {12, 16777228} |->
                     IF t = 12 THEN "ARM" ELSE "ARM64"]

\* macholib.mach_o.get_cpu_subtype, on the modelled files.
get_cpu_subtype(cputype, cpusubtype) ==
  CASE cputype = 12 /\ cpusubtype = 9 -> "CPU_SUBTYPE_ARM_V7"
    [] cputype = 16777228 /\ cpusubtype = 0 -> "CPU_SUBTYPE_ARM64_ALL"
    [] OTHER -> cpusubtype

\* A variant of get_bin_info that swallows the error of MachO and gives None.
get_bin_info_lenient(file) ==
  LET m == MachO(file)
  IN  IF m.kind = "raise" \/ Len(m.value) = 0 THEN RetNone
      ELSE Ret([endian |-> m.value[1].endian,
                bit |-> IF m.value[1].MH_MAGIC \in {MH_MAGIC_64, MH_CIGAM_64}
                        THEN "64-bit" ELSE "32-bit",
                arch |-> IF m.value[1].cputype \in DOMAIN CPU_TYPE_NAMES
                         THEN CPU_TYPE_NAMES[m.value[1].cputype]
                         ELSE m.value[1].cputype,
                subarch |-> get_cpu_subtype(m.value[1].cputype,
                                            m.value[1].cpusubtype)])

get_bin_info(file) ==
  LET m == MachO(file)
      header == m.value[1]
      sz == IF header.MH_MAGIC = MH_MAGIC_64 \/ header.MH_MAGIC = MH_CIGAM_64
            THEN "64-bit"
            ELSE "32-bit"
      arch == IF header.cputype \in DOMAIN CPU_TYPE_NAMES
              THEN CPU_TYPE_NAMES[header.cputype]
              ELSE header.cputype
      subarch == get_cpu_subtype(header.cputype, header.cpusubtype)
  IN  IF m.kind = "raise" THEN Raised
      ELSE IF Len(m.value) = 0 THEN RetNone
      ELSE Ret([endian |-> header.endian, bit |-> sz, arch |-> arch,
                subarch |-> subarch])

-----------------------------------------------------------------------------
(* The inputs and the environment the runs are drawn from. *)

Platforms == {"Darwin", "Linux", "Windows"}

DefaultSettings ==
  [OTOOL_BINARY |-> "", JTOOL_BINARY |-> "", CLASSDUMPZ_BINARY |-> "",
   CLASSDUMP_SWIFT_BINARY |-> ""]

CustomSettings ==
  [OTOOL_BINARY |-> "/opt/otool", JTOOL_BINARY |-> "/opt/jtool",
   CLASSDUMPZ_BINARY |-> "/opt/class-dump-z",
   CLASSDUMP_SWIFT_BINARY |-> "/opt/class-dump-swift"]

BundledTools ==
  {"/tools/jtool.ELF64", "/tools/class-dump-z", "/tools/class-dump-swift"}

CustomTools ==
  {"/opt/otool", "/opt/jtool", "/opt/class-dump-z", "/opt/class-dump-swift"}

\* The runs of the model: the settings, the utilities installed and the
\* arguments of binary_analysis, with the outcome of os.listdir(src).
Arguments(name, listing) ==
  [src |-> "/ipa/Payload", tools_dir |-> "/tools", app_dir |-> "/out",
   executable_name |-> name, listing |-> listing]

Scenarios ==
  { [settings |-> DefaultSettings, tools |-> BundledTools,
     input |-> Arguments(RetNone,
                         Ret(<< "iTunesArtwork", "App.app", "Old.app" >>))],
    [settings |-> CustomSettings, tools |-> BundledTools \cup CustomTools,
     input |-> Arguments(Ret("Bin"), Ret(<< "App.app" >>))],
    [settings |-> CustomSettings, tools |-> {},
     input |-> Arguments(RetNone, Ret(<< "App.app" >>))],
    [settings |-> DefaultSettings, tools |-> BundledTools,
     input |-> Arguments(RetNone, Ret(<< "Info.plist" >>))],
    [settings |-> DefaultSettings, tools |-> BundledTools,
     input |-> Arguments(RetNone, Raised)] }

\* The Mach-O files at bin_path.
MachOFiles ==
  { [magic |-> "0x7f454c46", headers |-> << >>],
    [magic |-> MH_CIGAM,
     headers |-> << [MH_MAGIC |-> MH_CIGAM, endian |-> "<", cputype |-> 12,
                     cpusubtype |-> 9] >>],
    [magic |-> MH_CIGAM_64,
     headers |-> << [MH_MAGIC |-> MH_CIGAM_64, endian |-> "<",
                     cputype |-> 16777228, cpusubtype |-> 0] >>] }

\* The outputs of the linked libraries listing of the binary at bpath.
LibsTexts(bpath) ==
  { "",
    bpath \o ":\n\t/usr/lib/libobjc.A.dylib\n\t@rpath/libswiftCore.dylib\n",
    "@rpath/libswiftCore.dylib <weak>\n/usr/lib/libSystem.B.dylib" }

\* The outputs of the header dump.
HeaderTexts ==
  { "MH_MAGIC_64 ARM64 ALL EXECUTE NOUNDEFS DYLDLINK TWOLEVEL PIE\n",
    "MH_MAGIC_64 ARM64 ALL EXECUTE NOUNDEFS DYLDLINK TWOLEVEL\n" }

\* The outputs of the class dump utilities.
DumpTexts ==
  { "@interface AppDelegate : NSObject\n@end\n",
    "@interface Browser : UIWebView\n@end\n",
    "Source: (null)\n@interface Browser : UIWebView\n@end\n" }

\* The outcomes of strings_util.
StringsFound ==
  { Raised, Ret(<< "<html>", "key", "<html>" >>) }

\* Outcomes of running bin: it raises when it is missing or exits non-zero.
Runs(bin, texts) ==
  IF Installed(bin) THEN {Raised} \cup {Output(t) : t \in texts}
  ELSE {Raised}

-----------------------------------------------------------------------------
(* binary_analysis, phase by phase. *)

\* The first entry of the listing that ends with .app, or ''.
RECURSIVE dot_app_dir(_)
dot_app_dir(dirs) ==
  IF Len(dirs) = 0 THEN ""
  ELSE IF endswith(dirs[1], ".app") THEN dirs[1]
  ELSE dot_app_dir(Tail(dirs))

bin_dir(in) == path_join(in.src, dot_app_dir(in.listing.value))

bin_name(in) ==
  IF in.executable_name.kind = "None"
  THEN str_replace(dot_app_dir(in.listing.value), ".app", "")
  ELSE in.executable_name.value

\* The report of a run that finds no binary (lines 464-466).
EmptyReport == [libs |-> << >>, bin_res |-> << >>, strings |-> << >>]

\* filter(None, seq): without the empty dicts.
filter_none(seq) == SelectSeq(seq, LAMBDA d : d # EmptyDict)

Init ==
  /\ plat \in Platforms
  /\ \E run \in Scenarios, present \in BOOLEAN :
       /\ settings = run.settings
       /\ input = run.input
       /\ IF present /\ run.input.listing.kind = "value"
             /\ Len(dot_app_dir(run.input.listing.value)) > 0
          THEN /\ files = run.tools \cup {path_join(bin_dir(run.input),
                                                    bin_name(run.input))}
               /\ binary \in MachOFiles
          ELSE /\ files = run.tools
               /\ binary = NotRun
  /\ pc = "start"
  /\ bin_path = NotRun
  /\ bin_info = NotRun
  /\ otool_dict = NotRun
  /\ libs_dat = NotRun
  /\ pie_dat = NotRun
  /\ dat = NotRun
  /\ bin_type = NotRun
  /\ class_dump_ret = NotRun
  /\ cls_dump = NotRun
  /\ strings_in_ipa = NotRun
  /\ invoked = << >>
  /\ chmods = << >>
  /\ artifacts = << >>
  /\ dump_runs = << >>
  /\ result = NotRun

\* A variant of Start without the existence check of line 467.
Start_unchecked ==
  /\ pc = "start"
  /\ IF input.listing.kind = "raise"
     THEN /\ result' = RetNone
          /\ pc' = "done"
          /\ UNCHANGED bin_path
     ELSE /\ bin_path' = Ret(path_join(bin_dir(input), bin_name(input)))
          /\ pc' = "get_bin_info"
          /\ UNCHANGED result
  /\ UNCHANGED dump_runs
  /\ UNCHANGED << plat, settings, files, input, binary, bin_info, otool_dict,
                  libs_dat, pie_dat, dat, bin_type, class_dump_ret, cls_dump,
                  strings_in_ipa, invoked, chmods, artifacts >>

\* Lines 447-469 (and 486-488): the binary is located.  A missing binary
\* ends the run with the empty report; os.listdir raising ends it with None.
Start ==
  /\ pc = "start"
  /\ IF input.listing.kind = "raise"
     THEN /\ result' = RetNone
          /\ pc' = "done"
          /\ UNCHANGED bin_path
     ELSE LET path == path_join(bin_dir(input), bin_name(input))
          IN  /\ bin_path' = Ret(path)
              /\ IF ~is_file_exists(path)
                 THEN /\ result' = Ret(EmptyReport)
                      /\ pc' = "done"
                 ELSE /\ pc' = "get_bin_info"
                      /\ UNCHANGED result
  /\ UNCHANGED dump_runs
  /\ UNCHANGED << plat, settings, files, input, binary, bin_info, otool_dict,
                  libs_dat, pie_dat, dat, bin_type, class_dump_ret, cls_dump,
                  strings_in_ipa, invoked, chmods, artifacts >>

\* Line 471.  An exception of get_bin_info is caught at line 487.
GetBinInfo ==
  /\ pc = "get_bin_info"
  /\ LET r == get_bin_info(binary)
     IN  IF r.kind = "raise"
         THEN /\ result' = RetNone
              /\ pc' = "done"
              /\ UNCHANGED bin_info
         ELSE /\ bin_info' = r
              /\ pc' = "otool_analysis"
              /\ UNCHANGED result
  /\ UNCHANGED dump_runs
  /\ UNCHANGED << plat, settings, files, input, binary, bin_path, otool_dict,
                  libs_dat, pie_dat, dat, bin_type, class_dump_ret, cls_dump,
                  strings_in_ipa, invoked, chmods, artifacts >>

\* The utility get_otool_out runs on this host.
otool_or_jtool ==
  IF plat = "Darwin"
  THEN IF Len(settings.OTOOL_BINARY) > 0
          /\ is_file_exists(settings.OTOOL_BINARY)
       THEN settings.OTOOL_BINARY
       ELSE "otool"
  ELSE IF Len(settings.JTOOL_BINARY) > 0
          /\ is_file_exists(settings.JTOOL_BINARY)
       THEN settings.JTOOL_BINARY
       ELSE path_join(input.tools_dir, "jtool.ELF64")

\* The outcomes the symbols invocations may have: one on Darwin, the bind
\* and the lazy bind tables on Linux.
SymbolsRuns ==
  IF plat = "Darwin"
  THEN { << o >> : o \in Runs(otool_or_jtool, SymbolTexts) }
  ELSE IF Installed(otool_or_jtool)
  THEN { << Raised, Raised >>, << Output("_open\n"), Raised >> }
       \cup { << Output(q[1]), Output(q[2]) >> : q \in SymbolSplits }
  ELSE { << Raised, Raised >> }

\* The text the symbols invocations give, as far as they succeed.
symbols_text(outs) ==
  IF \E i \in 1..Len(outs) : outs[i].kind = "raise" THEN ""
  ELSE join("", [i \in 1..Len(outs) |-> outs[i].value])

\* Line 472.
OtoolAnalysis ==
  /\ pc = "otool_analysis"
  /\ \E l \in Runs(otool_or_jtool, LibsTexts(bin_path.value)),
        h \in Runs(otool_or_jtool, HeaderTexts),
        s \in SymbolsRuns :
       \* an invocation that is not made has no outcome to draw
       /\ l.kind = "raise" => h.kind = "raise"
       /\ h.kind = "raise" => \A i \in 1..Len(s) : s[i].kind = "raise"
       /\ \E ord \in set_orders(symbols_text(s), 1) :
         LET r == otool_analysis(input.tools_dir, bin_name(input),
                                 bin_path.value, bin_dir(input),
                                 [libs |-> << l >>, header |-> << h >>,
                                  symbols |-> s],
                                 ord)
         IN  /\ otool_dict' = r.res
             /\ libs_dat' = r.libs
             /\ pie_dat' = r.pie_dat
             /\ dat' = r.dat
             /\ invoked' = invoked \o r.calls
  /\ pc' = "detect_bin_type"
  /\ UNCHANGED dump_runs
  /\ UNCHANGED << plat, settings, files, input, binary, bin_path, bin_info,
                  bin_type, class_dump_ret, cls_dump, strings_in_ipa, chmods,
                  artifacts, result >>

\* Line 473.  Subscripting None raises TypeError, caught at line 487.
DetectBinType ==
  /\ pc = "detect_bin_type"
  /\ IF otool_dict.kind = "None"
     THEN /\ result' = RetNone
          /\ pc' = "done"
          /\ UNCHANGED bin_type
     ELSE /\ bin_type' = Ret(detect_bin_type(otool_dict.value.libs))
          /\ pc' = "class_dump"
          /\ UNCHANGED result
  /\ UNCHANGED dump_runs
  /\ UNCHANGED << plat, settings, files, input, binary, bin_path, bin_info,
                  otool_dict, libs_dat, pie_dat, dat, class_dump_ret,
                  cls_dump, strings_in_ipa, invoked, chmods, artifacts >>

\* The utility class_dump runs first on this host, and the outcomes of its
\* invocations: the dump and, on Darwin, the fail safe class-dump-swift.
first_dump_bin ==
  LET pick(conf, name) ==
        IF Len(conf) > 0 /\ is_file_exists(conf) THEN conf
        ELSE path_join(input.tools_dir, name)
  IN  IF plat = "Darwin"
      THEN IF bin_type.value = "Swift"
           THEN pick(settings.CLASSDUMP_SWIFT_BINARY, "class-dump-swift")
           ELSE pick(settings.CLASSDUMPZ_BINARY, "class-dump-z")
      ELSE pick(settings.JTOOL_BINARY, "jtool.ELF64")

DumpRuns ==
  LET first == Runs(first_dump_bin, DumpTexts)
      again(o) == /\ plat = "Darwin"
                  /\ o.kind = "value"
                  /\ Contains("Source: (null)", o.value)
  IN  { << o >> : o \in {x \in first : ~again(x)} }
      \cup
      { << o, p >> :
          o \in {x \in first : again(x)},
          p \in Runs(path_join(input.tools_dir, "class-dump-swift"),
                     DumpTexts) }

\* The outcomes of os.chmod on the utility (lines 375 and 384).  It raises
\* when nothing is at the path and may raise when something is.  A path
\* that is not a file may still be a directory: os.chmod then returns and
\* the invocation raises.
ChmodRuns == {RetNone, Raised}

\* The outcomes of open(os.devnull, 'w') (line 390): it may raise, as when
\* the process is out of file descriptors.
DevnullRuns == {RetNone, Raised}

\* The outcomes of writing text to classdump.txt (lines 399-400): written
\* in full; open raises (app_dir is not there, or the path cannot be
\* written); or open succeeds and the write raises part way, as on a full
\* disk, leaving fewer characters than the text has.
WriteRuns(text) ==
  {RetNone, Raised}
    \cup {Short(n) : n \in {k \in 0..MaxKept : k < Len(text)}}

\* Lines 474-476.
ClassDump ==
  /\ pc = "class_dump"
  /\ \E c \in ChmodRuns, d \in DevnullRuns, outs \in DumpRuns :
     \E w \in WriteRuns(IF outs[Len(outs)].kind = "value"
                        THEN outs[Len(outs)].value ELSE "") :
       \* an operation that is not made has no outcome to draw
       /\ c.kind = "raise" => d = Raised
       /\ d.kind = "raise" => outs = << Raised >>
       /\ (\E i \in 1..Len(outs) : outs[i].kind = "raise") => w = Raised
       /\ LET r == class_dump(input.tools_dir, bin_path.value,
                              input.app_dir, bin_type.value, c, d, outs, w)
          IN  /\ class_dump_ret' = r.res
              /\ cls_dump' = IF r.res.kind = "None" \/ r.res.value = EmptyDict
                             THEN EmptyDict
                             ELSE r.res.value
              /\ chmods' = chmods \o r.chmods
              /\ invoked' = invoked \o r.calls
              /\ artifacts' = artifacts \o r.writes
              /\ dump_runs' = [i \in 1..Len(r.calls) |->
                                 [args |-> r.calls[i], out |-> outs[i]]]
  /\ pc' = "strings_on_ipa"
  /\ UNCHANGED << plat, settings, files, input, binary, bin_path, bin_info,
                  otool_dict, libs_dat, pie_dat, dat, bin_type,
                  strings_in_ipa, result >>

\* Line 477.
StringsOnIpa ==
  /\ pc = "strings_on_ipa"
  /\ \E found \in StringsFound :
       \E ord \in Orders(IF found.kind = "raise" THEN {}
                          ELSE Range(found.value)) :
         strings_in_ipa' = strings_on_ipa(found, ord)
  /\ pc' = "report"
  /\ UNCHANGED dump_runs
  /\ UNCHANGED << plat, settings, files, input, binary, bin_path, bin_info,
                  otool_dict, libs_dat, pie_dat, dat, bin_type,
                  class_dump_ret, cls_dump, invoked, chmods, artifacts,
                  result >>

\* Lines 478-486: the report is assembled and returned.
Report ==
  /\ pc = "report"
  /\ result' = Ret([libs |-> otool_dict.value.libs,
                    bin_res |-> filter_none(otool_dict.value.anal
                                            \o << cls_dump >>),
                    strings |-> value_of(strings_in_ipa),
                    macho |-> value_of(bin_info),
                    bin_type |-> bin_type.value])
  /\ pc' = "done"
  /\ UNCHANGED dump_runs
  /\ UNCHANGED << plat, settings, files, input, binary, bin_path, bin_info,
                  otool_dict, libs_dat, pie_dat, dat, bin_type,
                  class_dump_ret, cls_dump, strings_in_ipa, invoked, chmods,
                  artifacts >>

Next ==
  \/ Start
  \/ GetBinInfo
  \/ OtoolAnalysis
  \/ DetectBinType
  \/ ClassDump
  \/ StringsOnIpa
  \/ Report

Spec == Init /\ [][Next]_vars

-----------------------------------------------------------------------------
(* Properties of the runs. *)

\* The host is one get_otool_out and class_dump support.
Supported == plat \in {"Darwin", "Linux"}

\* The run found the binary and its header inspection succeeded.
Inspected == bin_info # NotRun

\* The legacy cipher and mode identifiers.
LegacyCiphers ==
  {"kCCAlgorithmDES", "kCCAlgorithm3DES", "kCCAlgorithmRC2",
   "kCCAlgorithmRC4", "kCCOptionECBMode", "kCCOptionCBCMode"}

\* The issues of the nine categories that are findings only when matched,
\* in the order of PATTERNS.
CategoryIssues ==
  << "Binary make use of banned API(s)",
     "Binary make use of some Weak Crypto API(s)",
     "Binary make use of the following Crypto API(s)",
     "Binary make use of the following Weak HASH API(s)",
     "Binary make use of the following HASH API(s)",
     "Binary make use of the insecure Random Function(s)",
     "Binary make use of Logging Function",
     "Binary make use of malloc Function",
     "Binary calls ptrace Function for anti-debugging." >>

\* A token of the i-th category occurs in text.
TokenOccurs(i, text) ==
  \E k \in 1..Len(PATTERNS[i]) :
    /\ PATTERNS[i][k] # ""
    /\ Contains(PATTERNS[i][k], text)

\* TokenOccurs on the symbol tables of the model, computed once.
token_table ==
  [t \in SymbolTexts |-> [i \in 1..Len(PATTERNS) |-> TokenOccurs(i, t)]]

Occurs(i, text) ==
  IF text \in SymbolTexts THEN token_table[text][i] ELSE TokenOccurs(i, text)

\* The entries of seq that are findings.
Findings(seq) == SelectSeq(seq, LAMBDA d : d # << >>)

\* The findings of seq whose issue is one of issues.
WithIssue(seq, issues) ==
  SelectSeq(seq, LAMBDA d : d # << >> /\ d.issue \in issues)

\* Some entry of libs names the Swift runtime library.
LinksSwift(libs) ==
  \E i \in 1..Len(libs) : Contains("libswiftCore.dylib", libs[i])

\* C1: on a host that is neither Darwin nor Linux, with the executable
\* present, get_otool_out gives None for the evidence it is asked for and
\* binary_analysis still returns a report, whose libs, bin_res and strings
\* are empty.
C1_UnsupportedHostReport ==
  (pc = "done" /\ ~Supported /\ Inspected) =>
    /\ libs_dat = RetNone
    /\ pie_dat = RetNone
    /\ result.kind = "value"
    /\ result.value.libs = << >>
    /\ result.value.bin_res = << >>
    /\ result.value.strings = << >>

\* C2: when the resolved path of the executable does not exist, the run is
\* over at once with a report whose libs, bin_res and strings are empty
\* lists, and no phase has run: no header inspection, no invocation of a
\* utility, no chmod and no classdump.txt.
C2_MissingBinaryEmptyReport ==
  (bin_path.kind = "value" /\ bin_path.value \notin files) =>
    /\ pc = "done"
    /\ result.kind = "value"
    /\ result.value.libs = << >>
    /\ result.value.bin_res = << >>
    /\ result.value.strings = << >>
    /\ bin_info = NotRun
    /\ otool_dict = NotRun
    /\ bin_type = NotRun
    /\ class_dump_ret = NotRun
    /\ strings_in_ipa = NotRun
    /\ invoked = << >>
    /\ chmods = << >>
    /\ artifacts = << >>

\* A run that has resolved a path with no file at it and has returned.
C2_Witness ==
  /\ bin_path.kind = "value"
  /\ bin_path.value \notin files
  /\ bin_path.value = "/ipa/Payload/App.app/App"
  /\ pc = "done"
  /\ result.kind = "value"

\* C3: when the invocation of a utility fails while one evidence kind is
\* collected (linked libraries, header dump, symbol tables or class dump),
\* only that kind is absent: binary_analysis still returns a report, which
\* keeps the libraries and the findings of the other kinds.
C3_ToolFailureIsolated ==
  (pc = "done" /\ (libs_dat = Raised \/ pie_dat = Raised \/ dat = Raised
                   \/ class_dump_ret = RetNone)) =>
    /\ result.kind = "value"
    /\ libs_dat.kind = "value" => result.value.libs = libs_dat.value
    /\ pie_dat.kind = "value" =>
         Len(WithIssue(result.value.bin_res,
                       {"fPIE -pie flag is Found",
                        "fPIE -pie flag is not Found"})) = 1

\* C4: every finding of a returned report has a severity of at least 0, a
\* status among Secure, Insecure, Info and Warning, and an empty cwe only if
\* its status is Secure or Info.
C4_FindingWellFormed ==
  result.kind = "value" =>
    \A i \in 1..Len(result.value.bin_res) :
      LET f == result.value.bin_res[i]
      IN  /\ f.cvss >= 0
          /\ f.status \in {"Secure", "Insecure", "Info", "Warning"}
          /\ f.cwe = "" => f.status \in {"Secure", "Info"}

\* C5: for every symbol table given to otool_analysis, the findings it
\* returns hold exactly one stack protection finding: Secure with severity 0
\* when the table contains stack_chk_guard, Insecure with severity 2 and a
\* cwe when it does not, whatever else the table contains.
C5_OneStackFinding ==
  dat.kind = "value" =>
    /\ otool_dict.kind = "value"
    /\ LET stack == WithIssue(otool_dict.value.anal,
                              {"fstack-protector-all flag is Found",
                               "fstack-protector-all flag is not Found"})
       IN  /\ Len(stack) = 1
           /\ IF Contains("stack_chk_guard", dat.value)
              THEN /\ stack[1].issue = "fstack-protector-all flag is Found"
                   /\ stack[1].status = "Secure"
                   /\ stack[1].cvss = 0
              ELSE /\ stack[1].issue = "fstack-protector-all flag is not Found"
                   /\ stack[1].status = "Insecure"
                   /\ stack[1].cvss = 20
                   /\ stack[1].cwe # ""

\* C6: for every symbol table that contains one of the legacy cipher or
\* mode identifiers, otool_analysis returns findings with exactly one weak
\* crypto finding, Insecure with severity 3, whose description names the
\* identifiers matched.
C6_WeakCryptoFinding ==
  (dat.kind = "value" /\ \E t \in LegacyCiphers : Contains(t, dat.value)) =>
    /\ otool_dict.kind = "value"
    /\ LET weak == WithIssue(otool_dict.value.anal, {CategoryIssues[2]})
       IN  /\ Len(weak) = 1
           /\ weak[1].status = "Insecure"
           /\ weak[1].cvss = 30
           /\ \A t \in LegacyCiphers :
                Contains(t, dat.value) => Contains(t, weak[1].description)

\* C7: for each of the nine categories other than PIE, stack protection and
\* ARC, when no token of the category occurs in the symbol table there is no
\* finding of the category: the test on the joined matches does not fire on
\* an empty match set (the weak crypto pattern with its empty alternative
\* included, so a table without a legacy cipher is scanned to the end), and
\* the findings of the report hold no empty entry.
C7_NoFindingWithoutToken ==
  /\ (dat.kind = "value" /\ ~Occurs(2, dat.value)) =>
       otool_dict.kind = "value"
  /\ otool_dict.kind = "value" =>
       \A i \in 1..Len(PATTERNS) :
         ~Occurs(i, dat.value) => otool_dict.value.anal[3 + i] = << >>
  /\ (result.kind = "value" /\ Inspected) =>
       /\ \A j \in 1..Len(result.value.bin_res) :
            result.value.bin_res[j] # << >>
       /\ \A i \in 1..Len(PATTERNS) :
            ~Occurs(i, dat.value) =>
              Len(WithIssue(result.value.bin_res, {CategoryIssues[i]})) = 0

\* A report for a symbol table that calls NSLog and holds no legacy cipher:
\* the logging finding is there, the other eight categories are not.
C7_Witness ==
  /\ result.kind = "value"
  /\ Inspected
  /\ dat.kind = "value"
  /\ Occurs(7, dat.value)
  /\ \A i \in 1..Len(PATTERNS) : i # 7 => ~Occurs(i, dat.value)
  /\ Len(WithIssue(result.value.bin_res, {CategoryIssues[7]})) = 1

\* The dump invocations of the run were made and all came out.
DumpSucceeded ==
  /\ Len(dump_runs) > 0
  /\ \A i \in 1..Len(dump_runs) : dump_runs[i].out.kind = "value"

\* C8: on a supported host, when the class dump utility succeeds,
\* class_dump returns one Info finding if the final dump contains UIWebView
\* and no finding if not; the report's findings are the findings of the
\* scan followed by that finding when there is one, and nothing more.
C8_WebViewFinding ==
  /\ (Supported /\ DumpSucceeded) =>
       IF Contains("UIWebView", dump_runs[Len(dump_runs)].out.value)
       THEN /\ class_dump_ret.kind = "value"
            /\ class_dump_ret.value # << >>
            /\ class_dump_ret.value.issue = "Binary uses WebView Component."
            /\ class_dump_ret.value.status = "Info"
       ELSE class_dump_ret.kind = "value" => class_dump_ret.value = << >>
  /\ (result.kind = "value" /\ Inspected) =>
       result.value.bin_res =
         Findings(otool_dict.value.anal)
         \o (IF class_dump_ret.kind = "value" /\ class_dump_ret.value # << >>
             THEN << class_dump_ret.value >>
             ELSE << >>)

\* Library lists of up to three entries, with and without the Swift runtime.
LibsLists ==
  LET E == {"", "/usr/lib/libobjc.A.dylib",
            "\t@rpath/libswiftCore.dylib (compatibility version 1.0.0)"}
  IN  UNION { [1..n -> E] : n \in 0..3 }

\* detect_bin_type on LibsLists, against the definition of the claim.
PureClassification ==
  \A l \in LibsLists :
    detect_bin_type(l) = IF LinksSwift(l) THEN "Swift" ELSE "Objective C"

\* C9: detect_bin_type depends on the library list only: it gives Swift if
\* and only if some entry contains libswiftCore.dylib, wherever the entry
\* is and whatever the others are, and Objective C otherwise, the empty
\* list included; the bin_type of the report is this classification of the
\* libs of the report.
C9_SwiftIffRuntimeLinked ==
  /\ PureClassification
  /\ bin_type.kind = "value" =>
       bin_type.value =
         IF LinksSwift(otool_dict.value.libs) THEN "Swift" ELSE "Objective C"
  /\ (result.kind = "value" /\ Inspected) =>
       result.value.bin_type =
         IF LinksSwift(result.value.libs) THEN "Swift" ELSE "Objective C"

\* A report classified Swift whose first library is not the Swift runtime.
C9_Witness ==
  /\ result.kind = "value"
  /\ Inspected
  /\ result.value.bin_type = "Swift"
  /\ Len(result.value.libs) > 1
  /\ ~Contains("libswiftCore.dylib", result.value.libs[1])

\* The binary of the run has no magic macholib recognizes.
BadMagic ==
  /\ binary # NotRun
  /\ binary.magic \notin {"0xfeedface", "0xcefaedfe", "0xfeedfacf",
                          "0xcffaedfe", "0xcafebabe", "0xcafebabf"}

\* C10: header inspection comes before any evidence collection, and when
\* get_bin_info fails on the executable (no recognized magic) the run is
\* aborted: no report is returned, no utility is invoked and no
\* classdump.txt is written.
C10_HeaderInspectionFirst ==
  /\ (otool_dict # NotRun \/ class_dump_ret # NotRun
      \/ strings_in_ipa # NotRun \/ invoked # << >> \/ chmods # << >>
      \/ artifacts # << >>) => Inspected
  /\ BadMagic =>
       /\ pc \in {"start", "get_bin_info", "done"}
       /\ ~Inspected
       /\ invoked = << >>
       /\ chmods = << >>
       /\ artifacts = << >>
       /\ result \in {NotRun, RetNone}
       /\ pc = "done" => result = RetNone

\* A run on a binary with an unrecognized magic that has ended.
C10_Witness ==
  /\ pc = "done"
  /\ BadMagic
  /\ is_file_exists(bin_path.value)
  /\ result = RetNone

\* C11: a fault in a phase that runs after the executable is found (header
\* inspection, evidence collection and signature scan, classification,
\* class dump, strings) aborts the remaining phases: once a phase has
\* faulted, no later phase of the run is executed.
C11_FaultAbortsLaterPhases ==
  /\ (pc = "done" /\ BadMagic) =>
       /\ otool_dict = NotRun
       /\ bin_type = NotRun
       /\ class_dump_ret = NotRun
       /\ strings_in_ipa = NotRun
  /\ otool_dict = RetNone =>
       /\ bin_type = NotRun
       /\ class_dump_ret = NotRun
       /\ strings_in_ipa = NotRun
  /\ class_dump_ret = RetNone => strings_in_ipa = NotRun

\* The first dump of the run came out and holds the sentinel of line 392.
FirstDumpHasSentinel ==
  /\ Len(dump_runs) > 0
  /\ dump_runs[1].out.kind = "value"
  /\ Contains("Source: (null)", dump_runs[1].out.value)

\* C12: class_dump invokes a dump utility at most twice in a run.  The
\* second invocation, the retry, is made exactly when the first output
\* holds 'Source: (null)' and the host is Darwin; it runs class-dump-swift
\* of the tools directory and is not repeated, whatever its output holds;
\* on Linux there is no retry.  classdump.txt and the UIWebView test both
\* take the output of the last invocation.
C12_RetryOnceOnDarwin ==
  /\ Len(dump_runs) <= 2
  /\ plat = "Linux" => Len(dump_runs) <= 1
  /\ class_dump_ret # NotRun =>
       (Len(dump_runs) = 2 <=> (plat = "Darwin" /\ FirstDumpHasSentinel))
  /\ Len(dump_runs) = 2 =>
       dump_runs[2].args = << "/tools/class-dump-swift", bin_path.value >>
  /\ (Supported /\ class_dump_ret.kind = "value") =>
       LET last == dump_runs[Len(dump_runs)].out
       IN  /\ Len(dump_runs) > 0
           /\ last.kind = "value"
           /\ artifacts = << << "/out/classdump.txt", last.value >> >>
           /\ class_dump_ret.value # << >> <=>
                Contains("UIWebView", last.value)

\* A run on Darwin whose retry came out with the sentinel again and was
\* not repeated: the dump written is that of the retry.
C12_Witness ==
  /\ plat = "Darwin"
  /\ class_dump_ret.kind = "value"
  /\ Len(dump_runs) = 2
  /\ dump_runs[2].out.kind = "value"
  /\ Contains("Source: (null)", dump_runs[2].out.value)
  /\ Len(artifacts) = 1
  /\ artifacts[1][2] = dump_runs[2].out.value

====
